---- MODULE Spec2Model ----
\* Model of Setup_custom.py: the load-time check of
\* DEVELOPMENT_ENVIRONMENT_FUNDAMENTAL, GetDependencies and GetCustomActions.
EXTENDS Integers, Sequences, FiniteSets, TLC

VARIABLES
    pc,                 \* "start" | "loaded" | "terminated"
    exception,          \* the exception that ended the process, "" while none
    environ,            \* value of DEVELOPMENT_ENVIRONMENT_FUNDAMENTAL (None when unset)
    fundamental_repo,   \* module-level variable of the same name
    sys_path,           \* sys.path
    CurrentShell,       \* [CategoryName, Architecture] as detected by the framework
    heap,               \* the OrderedDict objects created so far, by object reference
    results,            \* one record per GetDependencies invocation: reference and value returned
    written,            \* references of the objects a caller changed after they were returned
    custom              \* one-element sequence holding the last GetCustomActions call, <<>> before

vars == <<pc, exception, environ, fundamental_repo, sys_path, CurrentShell,
          heap, results, written, custom>>

\* ---------------------------------------------------------------------
\* Bounds
MaxInvocations == 2      \* GetDependencies invocations per process
MaxCallerWrites == 1     \* objects a caller changes after they were returned

\* ---------------------------------------------------------------------
\* Python values
None == <<>>                      \* an optional string is None or Some(s)
Some(s) == <<s>>

\* Python's `x or default` for an optional string: None and "" are falsy
Or(x, default) == IF x = None THEN default
                  ELSE IF x[1] = "" THEN default ELSE x[1]

\* ---------------------------------------------------------------------
\* The process environment at start-up
EnvironValues == {None, Some("/opt/fundamental"), Some("/tmp/empty"),
                  Some("/etc/hosts"), Some("/missing")}
Directories == {"/opt/fundamental", "/tmp/empty", "/usr/lib/python"}
BootstrapDirectories == {"/opt/fundamental"}    \* directories holding RepositoryBootstrap
InitialSysPath == <<"/usr/lib/python">>
CategoryNames == {"Windows", "Linux", "BSD"}
DetectedArchitectures == {"x64", "x86", "arm64"}

isdir(path) == path \in Directories

\* `from RepositoryBootstrap import *` finds the package on some entry of sys.path
CanImportRepositoryBootstrap(path) ==
    \E i \in 1..Len(path) : path[i] \in BootstrapDirectories

\* ---------------------------------------------------------------------
\* OrderedDict: a sequence of [key, value] entries in insertion order
DictIndex(d, k) ==
    IF \E i \in 1..Len(d) : d[i].key = k
    THEN CHOOSE i \in 1..Len(d) : d[i].key = k
    ELSE 0

HasKey(d, k) == DictIndex(d, k) # 0

\* d[k] = v : a new key is appended, an existing key keeps its position
DictSet(d, k, v) ==
    IF HasKey(d, k)
    THEN [d EXCEPT ![DictIndex(d, k)] = [key |-> k, value |-> v]]
    ELSE Append(d, [key |-> k, value |-> v])

\* del d[k]
DictDel(d, k) == SelectSeq(d, LAMBDA e : e.key # k)

Keys(d) == [i \in 1..Len(d) |-> d[i].key]

\* d = OrderedDict(): a new, empty object on the heap
OrderedDictCached(h) ==
    IF Len(h) > 0 THEN [ref |-> 1, heap |-> h]
    ELSE [ref |-> 1, heap |-> <<<<>>>>]
OrderedDict(h) == [ref |-> Len(h) + 1, heap |-> Append(h, <<>>)]

\* ---------------------------------------------------------------------
\* Records of the framework
Configuration(description, dependencies) ==
    [description |-> description, dependencies |-> dependencies]

Dependency(id, name, configuration, url) ==
    [id |-> id, name |-> name, configuration |-> configuration, url |-> url]

\* ---------------------------------------------------------------------
\* GetDependencies
architecturesCurrentOnly(shell) == <<shell.Architecture>>
architecturesBoth(shell) == <<"x64", "x86">>
architectures(shell) ==
    IF shell.CategoryName = "Windows"
    THEN <<"x64", "x86">>
    ELSE <<shell.Architecture>>

compiler_infos(shell) ==
    IF shell.CategoryName = "Windows"
    THEN << <<"MSVC_2019", None>>, <<"Clang_10", Some("_ex")>> >>
    ELSE << <<"Clang_10", Some("_ex")>> >>

boost_versions == <<"1.70.0">>

\* "{}_{}_{}{}".format(boost_version, config_name, architecture, suffix)
this_config_name_no_architecture(boost_version, config_name, architecture, suffix) ==
    boost_version \o "_" \o config_name \o suffix
this_config_name(boost_version, config_name, architecture, suffix) ==
    boost_version \o "_" \o config_name \o "_" \o architecture \o suffix

\* "boost {} - {} ({}{})".format(boost_version, config_name, architecture, suffix)
this_config_desc(boost_version, config_name, architecture, suffix) ==
    "boost " \o boost_version \o " - " \o config_name
        \o " (" \o architecture \o suffix \o ")"

\* "{}_{}{}".format(config_name, architecture, suffix)
boost_configuration_no_suffix(config_name, architecture, suffix) ==
    config_name \o "_" \o architecture
boost_configuration(config_name, architecture, suffix) ==
    config_name \o "_" \o architecture \o suffix

BoostDependency(boost_version, configuration) ==
    Dependency("407DD743110A4FB1871AEF60CBEC99A0",
               "Common_cpp_boost_" \o boost_version,
               configuration,
               "https://github.com/davidbrownell/Common_cpp_boost_" \o boost_version \o ".git")

HelpersDependency ==
    Dependency("398F6BEC057C4FE4B724153DF4EB8AE4",
               "Common_cpp_Helpers",
               "standard",
               "https://github.com/davidbrownell/Common_cpp_Helpers.git")

\* d[boost_version] = Configuration(...)
BaseConfigurationUnqualified(boost_version) ==
    Configuration("boost " \o boost_version \o " (No compiler dependencies)",
                  << BoostDependency(boost_version, ""), HelpersDependency >>)
BaseConfiguration(boost_version) ==
    Configuration("boost " \o boost_version \o " (No compiler dependencies)",
                  << BoostDependency(boost_version, "standard"), HelpersDependency >>)

\* d[this_config_name] = Configuration(...)
CompilerConfigurationHelpersOnly(boost_version, config_name, architecture, suffix) ==
    Configuration(this_config_desc(boost_version, config_name, architecture, suffix),
                  << HelpersDependency >>)
CompilerConfiguration(boost_version, config_name, architecture, suffix) ==
    Configuration(this_config_desc(boost_version, config_name, architecture, suffix),
                  << BoostDependency(boost_version,
                                     boost_configuration(config_name, architecture, suffix)),
                     HelpersDependency >>)

\* for architecture in architectures: ...
RECURSIVE ArchitectureLoop(_, _, _, _, _, _)
ArchitectureLoop(d, boost_version, config_name, suffix, archs, i) ==
    IF i > Len(archs) THEN d
    ELSE ArchitectureLoop(
            DictSet(d,
                    this_config_name(boost_version, config_name, archs[i], suffix),
                    CompilerConfiguration(boost_version, config_name, archs[i], suffix)),
            boost_version, config_name, suffix, archs, i + 1)

\* for config_name, architecture_configuration_suffix in compiler_infos: ...
RECURSIVE CompilerLoopFrom(_, _, _, _, _)
CompilerLoopFrom(d, boost_version, infos, archs, i) ==
    IF i > Len(infos) THEN d
    ELSE CompilerLoopFrom(
            ArchitectureLoop(d, boost_version, infos[i][1], Or(infos[i][2], ""), archs, 1),
            boost_version, infos, archs, i + 1)

\* the same two loops nested the other way round
RECURSIVE ArchitectureMajorFrom(_, _, _, _, _)
ArchitectureMajorFrom(d, boost_version, infos, archs, i) ==
    IF i > Len(archs) THEN d
    ELSE ArchitectureMajorFrom(
            CompilerLoopFrom(d, boost_version, infos, <<archs[i]>>, 1),
            boost_version, infos, archs, i + 1)

CompilerLoopArchitectureMajor(d, boost_version, infos, archs) ==
    ArchitectureMajorFrom(d, boost_version, infos, archs, 1)
CompilerLoop(d, boost_version, infos, archs) ==
    CompilerLoopFrom(d, boost_version, infos, archs, 1)

\* for boost_version in ["1.70.0"]: ...
RECURSIVE VersionLoop(_, _, _, _)
VersionLoop(d, infos, archs, i) ==
    IF i > Len(boost_versions) THEN d
    ELSE VersionLoop(
            CompilerLoop(DictSet(d, boost_versions[i], BaseConfiguration(boost_versions[i])),
                         boost_versions[i], infos, archs),
            infos, archs, i + 1)

\* the body of GetDependencies after `d = OrderedDict()`, on the contents of d
BuildDependencies(d, shell) ==
    VersionLoop(d, compiler_infos(shell), architectures(shell), 1)

\* ---------------------------------------------------------------------
\* GetCustomActions
CustomActionsEcho(debug, verbose, explicit_configurations) == explicit_configurations
CustomActions(debug, verbose, explicit_configurations) == <<>>

ExplicitConfigurations == {<<>>, <<"1.70.0">>, <<"1.70.0_Clang_10_x64_ex", "1.70.0">>}

\* ---------------------------------------------------------------------
Init ==
    /\ pc = "start"
    /\ exception = ""
    /\ environ \in EnvironValues
    /\ fundamental_repo = None
    /\ sys_path = InitialSysPath
    /\ CurrentShell \in [CategoryName : CategoryNames, Architecture : DetectedArchitectures]
    /\ heap = <<>>
    /\ results = <<>>
    /\ written = {}
    /\ custom = <<>>

\* Module load: lines 45-53
LoadUnset ==
    /\ pc = "start"
    /\ environ = None
    /\ fundamental_repo' = environ
    /\ pc' = "terminated"
    /\ exception' = "TypeError"
    /\ UNCHANGED <<environ, sys_path, CurrentShell, heap, results, written, custom>>

LoadNotADirectory ==
    /\ pc = "start"
    /\ environ # None
    /\ ~isdir(environ[1])
    /\ fundamental_repo' = environ
    /\ pc' = "terminated"
    /\ exception' = "AssertionError"
    /\ UNCHANGED <<environ, sys_path, CurrentShell, heap, results, written, custom>>

LoadImportFails ==
    /\ pc = "start"
    /\ environ # None
    /\ isdir(environ[1])
    /\ ~CanImportRepositoryBootstrap(<<environ[1]>> \o sys_path)
    /\ fundamental_repo' = environ
    /\ sys_path' = <<environ[1]>> \o sys_path
    /\ pc' = "terminated"
    /\ exception' = "ImportError"
    /\ UNCHANGED <<environ, CurrentShell, heap, results, written, custom>>

LoadSucceeds ==
    /\ pc = "start"
    /\ environ # None
    /\ isdir(environ[1])
    /\ CanImportRepositoryBootstrap(<<environ[1]>> \o sys_path)
    /\ fundamental_repo' = environ
    /\ sys_path' = Tail(<<environ[1]>> \o sys_path)
    /\ pc' = "loaded"
    /\ UNCHANGED <<exception, environ, CurrentShell, heap, results, written, custom>>

GetDependencies ==
    /\ pc = "loaded"
    /\ Len(results) < MaxInvocations
    /\ LET alloc == OrderedDict(heap)
           d == BuildDependencies(alloc.heap[alloc.ref], CurrentShell)
       IN  /\ heap' = [alloc.heap EXCEPT ![alloc.ref] = d]
           /\ results' = Append(results, [ref |-> alloc.ref, value |-> d])
    /\ UNCHANGED <<pc, exception, environ, fundamental_repo, sys_path, CurrentShell,
                   written, custom>>

GetCustomActions ==
    /\ pc = "loaded"
    /\ \E debug \in BOOLEAN, verbose \in BOOLEAN,
          explicit_configurations \in ExplicitConfigurations :
            custom' = << [debug |-> debug, verbose |-> verbose,
                          explicit_configurations |-> explicit_configurations,
                          result |-> CustomActions(debug, verbose, explicit_configurations)] >>
    /\ UNCHANGED <<pc, exception, environ, fundamental_repo, sys_path, CurrentShell,
                   heap, results, written>>

\* A caller of GetDependencies changes a map it was handed
CanWrite(ref) == ref \in written \/ Cardinality(written) < MaxCallerWrites

CallerDeletes ==
    /\ pc = "loaded"
    /\ \E i \in 1..Len(results) :
         LET ref == results[i].ref IN
         /\ CanWrite(ref)
         /\ \E j \in 1..Len(heap[ref]) :
              heap' = [heap EXCEPT ![ref] = DictDel(heap[ref], heap[ref][j].key)]
         /\ written' = written \cup {ref}
    /\ UNCHANGED <<pc, exception, environ, fundamental_repo, sys_path, CurrentShell,
                   results, custom>>

CallerAssigns ==
    /\ pc = "loaded"
    /\ \E i \in 1..Len(results) :
         LET ref == results[i].ref IN
         /\ CanWrite(ref)
         /\ heap' = [heap EXCEPT ![ref] =
                        DictSet(heap[ref], "local", Configuration("local", <<>>))]
         /\ written' = written \cup {ref}
    /\ UNCHANGED <<pc, exception, environ, fundamental_repo, sys_path, CurrentShell,
                   results, custom>>

Next ==
    \/ LoadUnset
    \/ LoadNotADirectory
    \/ LoadImportFails
    \/ LoadSucceeds
    \/ GetDependencies
    \/ GetCustomActions
    \/ CallerDeletes
    \/ CallerAssigns

Spec == Init /\ [][Next]_vars

\* ---------------------------------------------------------------------
\* Properties

Returned == {results[i].value : i \in 1..Len(results)}
Entries(d) == {d[i] : i \in 1..Len(d)}
Value(d, k) == d[DictIndex(d, k)].value

\* C1: on Windows every (compiler, suffix) pair of the Windows list has both an
\* x64 and an x86 configuration in the returned map, whatever the detected
\* architecture; the five keys of the example are present.
C1_WindowsBothArchitectures ==
    CurrentShell.CategoryName = "Windows" =>
        \A d \in Returned :
            /\ \A k \in {"1.70.0", "1.70.0_MSVC_2019_x64", "1.70.0_MSVC_2019_x86",
                         "1.70.0_Clang_10_x64_ex", "1.70.0_Clang_10_x86_ex"} : HasKey(d, k)
            /\ \A c \in {<<"MSVC_2019", "">>, <<"Clang_10", "_ex">>} :
                 \A a \in {"x64", "x86"} :
                    HasKey(d, "1.70.0_" \o c[1] \o "_" \o a \o c[2])

C1_Witness ==
    /\ CurrentShell.CategoryName = "Windows"
    /\ CurrentShell.Architecture = "arm64"
    /\ Len(results) > 0
    /\ HasKey(results[1].value, "1.70.0_MSVC_2019_x86")

\* C2: off Windows the returned map holds, for the one (compiler, suffix) pair
\* of the non-Windows list, exactly one architecture variant, that of the
\* detected architecture, and no configuration of any other architecture.
C2_OtherCategoriesCurrentArchitectureOnly ==
    CurrentShell.CategoryName # "Windows" =>
        \A d \in Returned :
            /\ Len(d) = 2
            /\ HasKey(d, "1.70.0_Clang_10_" \o CurrentShell.Architecture \o "_ex")
            /\ \A a \in (DetectedArchitectures \cup {"x64", "x86"}) \ {CurrentShell.Architecture} :
                 \A c \in {"MSVC_2019", "Clang_10"} : \A s \in {"", "_ex"} :
                    ~HasKey(d, "1.70.0_" \o c \o "_" \o a \o s)

C2_Witness ==
    /\ CurrentShell.CategoryName = "Linux"
    /\ CurrentShell.Architecture = "x86"
    /\ Len(results) > 0
    /\ HasKey(results[1].value, "1.70.0_Clang_10_x86_ex")

\* C3: every emitted name is unique: the returned map has 1 + pairs x
\* architectures entries (5 on Windows, 2 elsewhere), its keys are pairwise
\* distinct, and distinct (version, compiler, architecture, suffix) tuples of
\* the candidate lists give distinct names.
CandidateTuples(shell) ==
    {<<boost_versions[v], compiler_infos(shell)[c][1], architectures(shell)[a],
       Or(compiler_infos(shell)[c][2], "")>> :
        v \in 1..Len(boost_versions), c \in 1..Len(compiler_infos(shell)),
        a \in 1..Len(architectures(shell))}

C3_NamesUnique ==
    /\ \A d \in Returned :
        /\ Len(d) = IF CurrentShell.CategoryName = "Windows" THEN 1 + 2 * 2 ELSE 1 + 1 * 1
        /\ \A i, j \in 1..Len(d) : i # j => d[i].key # d[j].key
    /\ \A t, u \in CandidateTuples(CurrentShell) :
        t # u => this_config_name(t[1], t[2], t[3], t[4]) # this_config_name(u[1], u[2], u[3], u[4])

C3_Witness ==
    /\ CurrentShell.CategoryName = "Windows"
    /\ Len(results) > 0
    /\ Len(results[1].value) = 5
    /\ Cardinality(CandidateTuples(CurrentShell)) = 4

\* C4: in every compiler/architecture-specific configuration the boost
\* dependency names sub-configuration <compiler>_<architecture><suffix> (a None
\* suffix read as ""), the Common_cpp_Helpers dependency names "standard", and
\* the key is the version, "_" and that sub-configuration.
C4_CompilerConfigurationDependencies ==
    \A d \in Returned : \A i \in 2..Len(d) :
        LET deps == d[i].value.dependencies
            pairs == IF CurrentShell.CategoryName = "Windows"
                     THEN {<<"MSVC_2019", "">>, <<"Clang_10", "_ex">>}
                     ELSE {<<"Clang_10", "_ex">>}
            archs == IF CurrentShell.CategoryName = "Windows"
                     THEN {"x64", "x86"} ELSE {CurrentShell.Architecture}
        IN  /\ Len(deps) >= 2
            /\ deps[1].configuration \in {c[1] \o "_" \o a \o c[2] : c \in pairs, a \in archs}
            /\ deps[2].configuration = "standard"
            /\ d[i].key = "1.70.0" \o "_" \o deps[1].configuration

C4_Witness ==
    /\ CurrentShell.CategoryName = "Windows"
    /\ Len(results) > 0
    /\ HasKey(results[1].value, "1.70.0_MSVC_2019_x64")
    /\ Value(results[1].value, "1.70.0_MSVC_2019_x64").dependencies[1].configuration = "MSVC_2019_x64"
    /\ Value(results[1].value, "1.70.0_Clang_10_x86_ex").dependencies[1].configuration = "Clang_10_x86_ex"

\* C5: on every platform the returned map holds the base configuration under
\* the key "1.70.0", and both of its dependencies name sub-configuration
\* "standard".
C5_BaseConfigurationStandard ==
    \A d \in Returned :
        /\ HasKey(d, "1.70.0")
        /\ LET deps == Value(d, "1.70.0").dependencies
           IN  /\ Len(deps) = 2
               /\ deps[1].name = "Common_cpp_boost_1.70.0"
               /\ deps[1].configuration = "standard"
               /\ deps[2].name = "Common_cpp_Helpers"
               /\ deps[2].configuration = "standard"

C5_Witness ==
    /\ CurrentShell.CategoryName = "BSD"
    /\ CurrentShell.Architecture = "arm64"
    /\ Len(results) > 0
    /\ HasKey(results[1].value, "1.70.0")

\* C6: every call of GetCustomActions, whatever its debug flag, verbose flag
\* and list of requested configurations, returns the empty sequence and
\* changes nothing else.
C6_CustomActionsEmpty ==
    [][custom' # custom =>
        /\ custom'[1].result = <<>>
        /\ UNCHANGED <<pc, exception, environ, fundamental_repo, sys_path,
                       CurrentShell, heap, results, written>>]_vars

C6_Witness ==
    /\ custom # <<>>
    /\ custom[1].debug
    /\ ~custom[1].verbose
    /\ custom[1].explicit_configurations # <<>>
    /\ custom[1].result = <<>>
    /\ Len(results) > 0

\* C7: when DEVELOPMENT_ENVIRONMENT_FUNDAMENTAL is unset or does not name an
\* existing directory, loading the module ends the process with an assertion
\* failure before GetDependencies or GetCustomActions runs.
C7_InvalidEnvironmentAssertionFailure ==
    (pc # "start" /\ (environ = None \/ ~isdir(environ[1]))) =>
        /\ pc = "terminated"
        /\ exception = "AssertionError"
        /\ results = <<>>
        /\ custom = <<>>

\* C8: every configuration of the returned map has exactly two dependencies,
\* with the same identifier, name and URL in every configuration; the second
\* always names "standard".
C8_DependencyIdentityStable ==
    \A d \in Returned : \A e \in Entries(d) :
        LET deps == e.value.dependencies
        IN  /\ Len(deps) = 2
            /\ deps[1].id = "407DD743110A4FB1871AEF60CBEC99A0"
            /\ deps[1].name = "Common_cpp_boost_1.70.0"
            /\ deps[1].url = "https://github.com/davidbrownell/Common_cpp_boost_1.70.0.git"
            /\ deps[2].id = "398F6BEC057C4FE4B724153DF4EB8AE4"
            /\ deps[2].name = "Common_cpp_Helpers"
            /\ deps[2].url = "https://github.com/davidbrownell/Common_cpp_Helpers.git"
            /\ deps[2].configuration = "standard"

C8_Witness ==
    /\ CurrentShell.CategoryName = "Windows"
    /\ Len(results) > 0
    /\ \E e, f \in Entries(results[1].value) :
        /\ e.value.dependencies[1].configuration # f.value.dependencies[1].configuration
        /\ e.value.dependencies[1].id = f.value.dependencies[1].id

\* C9: the returned map keeps declaration order: the base configuration first,
\* then the compiler-specific ones compiler by compiler, x64 before x86.
C9_DeclarationOrder ==
    \A d \in Returned :
        Keys(d) = IF CurrentShell.CategoryName = "Windows"
                  THEN <<"1.70.0", "1.70.0_MSVC_2019_x64", "1.70.0_MSVC_2019_x86",
                         "1.70.0_Clang_10_x64_ex", "1.70.0_Clang_10_x86_ex">>
                  ELSE <<"1.70.0", "1.70.0_Clang_10_" \o CurrentShell.Architecture \o "_ex">>

C9_Witness ==
    /\ CurrentShell.CategoryName = "Windows"
    /\ Len(results) > 0
    /\ Keys(results[1].value)[2] = "1.70.0_MSVC_2019_x64"
    /\ Keys(results[1].value)[4] = "1.70.0_Clang_10_x64_ex"

\* C10: every invocation of GetDependencies returns a new object; any two
\* invocations return equal maps, and a map the caller has not changed still
\* has the value it was returned with, whatever the caller did to the others.
C10_FreshMapPerInvocation ==
    \A i, j \in 1..Len(results) :
        /\ i # j => results[i].ref # results[j].ref
        /\ results[i].value = results[j].value
        /\ results[i].ref \notin written => heap[results[i].ref] = results[i].value

C10_Witness ==
    /\ Len(results) = 2
    /\ written = {results[1].ref}
    /\ heap[results[1].ref] # results[1].value
    /\ heap[results[2].ref] = results[2].value

====
